---- MODULE Spec2Model ----
(***************************************************************************)
(* Pizza Haven backend: the Express server of src/server.js and the three  *)
(* other versions of the same server kept in src/unnamed/part_000.         *)
(*                                                                         *)
(* State: the express-session store, the three PostgreSQL tables (pizzas,  *)
(* orders, messages) with their SERIAL sequences, the requests suspended   *)
(* at `await pool.query(...)`, and the last response sent.                 *)
(*                                                                         *)
(* JavaScript values are encoded as strings: "undefined", "null", "" and   *)
(* "true" are the JS values undefined, null, the empty string and true.    *)
(***************************************************************************)
EXTENDS Integers, Sequences, FiniteSets, TLC

(* ------------------------------ bounds --------------------------------- *)
\* session ids express-session may generate
MaxSessions == 1
\* rows the SERIAL sequence of each table may hand out
MaxPizzas == 1
MaxOrders == 2
MaxMessages == 1
\* requests suspended at an await at the same time
MaxInflight == 1

VARIABLES
  variant,        \* which server file is deployed
  itemsColumn,    \* the type of column orders.items in the deployed database
  sessions,       \* express-session MemoryStore: sid -> record
  nextSid,        \* next session id to generate
  pizzas,         \* table pizzas: set of rows
  orders,         \* table orders: set of rows
  messages,       \* table messages: set of rows
  pizzaSeq,       \* pizzas_id_seq: last value handed out
  orderSeq,       \* orders_id_seq
  messageSeq,     \* messages_id_seq
  inflight,       \* requests suspended at `await pool.query`
  last            \* what the latest step answered, with what the request did

vars == <<variant, itemsColumn, sessions, nextSid, pizzas, orders, messages,
          pizzaSeq, orderSeq, messageSeq, inflight, last>>

db == <<pizzas, orders, messages, pizzaSeq, orderSeq, messageSeq>>

(* ----------------------------- the variants ---------------------------- *)
\* "server" is src/server.js; "p61", "p268" and "p480" are the servers that
\* start at lines 61, 268 and 480 of src/unnamed/part_000.
Variants == {"server", "p61", "p268", "p480"}

\* createTables declares orders.items JSON (JSONB in part_000), and CREATE
\* TABLE IF NOT EXISTS keeps a table that is already there: the listing of
\* server.js provides for an items column that comes back as text.
ItemsColumns == {"json", "text"}

Undef == "undefined"
Null == "null"

\* JavaScript truthiness of an encoded value
Truthy(v) == v \notin {"undefined", "null", "", "false", "0", "NaN"}

Sids == 1..MaxSessions
NoCookie == 0
Cookies == Sids \cup {NoCookie}

(* ------------------------------ sessions ------------------------------- *)
\* A record of the store. `exists` is whether the store returns it; `gone`
\* remembers why it does not: "expired" (cookie.maxAge passed; MemoryStore
\* drops such a record when it is next read) or "destroyed" (logout).
NoSession == [exists |-> FALSE, admin |-> Undef, gone |-> "no"]

\* express-session: the request's session is the stored one when the cookie
\* names a session the store returns; otherwise a new, unsaved session.
LoadSessionKeepsGone(ck) ==
  IF ck \in Sids /\ sessions[ck].gone # "no"
  THEN [id |-> ck, admin |-> "true", fresh |-> FALSE]
  ELSE [id |-> nextSid, admin |-> Undef, fresh |-> TRUE]
LoadSession(ck) ==
  IF ck \in Sids /\ sessions[ck].exists
  THEN [id |-> ck, admin |-> sessions[ck].admin, fresh |-> FALSE]
  ELSE [id |-> nextSid, admin |-> Undef, fresh |-> TRUE]

\* The guard, as each variant writes it.
adminAuthAllowsAll(v, sess) == TRUE
adminAuth(v, sess) ==
  CASE v = "server" -> Truthy(sess.admin)      \* req.session && req.session.admin
    [] v = "p61"    -> sess.admin = "true"     \* req.session.admin === true
    [] OTHER        -> Truthy(sess.admin)      \* req.session.admin

\* The body of the guard's 401.
DenyBody(v) ==
  IF v \in {"server", "p480"} THEN [error |-> "Unauthorized"]
  ELSE [success |-> FALSE]

(* ------------------------------ responses ------------------------------ *)
NoReq == [op |-> "none", ck |-> NoCookie, id |-> 0, body |-> [none |-> Undef],
          admin |-> FALSE]

Request(op, ck, id, body) ==
  [op |-> op, ck |-> ck, id |-> id, body |-> body,
   admin |-> Truthy(LoadSession(ck).admin)]

\* status 0: no response is ever sent (the handler's promise rejected unhandled)
Response(req, status, body, queried, rowCount) ==
  [req |-> req, status |-> status, body |-> body,
   queried |-> queried, rowCount |-> rowCount]

\* the value of `last` after a step that answers nothing
NoResponse == Response(NoReq, 0, [none |-> Undef], FALSE, 0)

Init ==
  /\ variant \in Variants
  /\ itemsColumn \in ItemsColumns
  /\ sessions = [s \in Sids |-> NoSession]
  /\ nextSid = 1
  /\ pizzas = {}
  /\ orders = {}
  /\ messages = {}
  /\ pizzaSeq = 0
  /\ orderSeq = 0
  /\ messageSeq = 0
  /\ inflight = {}
  /\ last = NoResponse

(* ------------------------------- login --------------------------------- *)
\* adminUser.username and the password whose bcrypt hash is compiled in
AdminUsername == "Owner"
AdminPassword(v) == IF v = "p480" THEN "Atif123" ELSE "Owner123"

Usernames == {"Owner", "owner"}
Passwords == {Undef, "Owner123", "Atif123"}

\* bcrypt.compare(password, hash): rejects when the data is missing
bcryptCompareNeverMatches(v, password) ==
  IF password = Undef THEN "throw" ELSE "false"
bcryptCompare(v, password) ==
  IF password = Undef THEN "throw"
  ELSE IF password = AdminPassword(v) THEN "true" ELSE "false"

\* req.session.admin = true, saved by express-session when the response ends
SessionSetAdmin(store, sess) ==
  [store EXCEPT ![sess.id] = [exists |-> TRUE, admin |-> "true", gone |-> "no"]]

\* What a rejected bcrypt.compare leads to. server.js and p480 catch it and
\* answer 500. p61 and p268 have no try/catch: the handler's promise rejects,
\* and Express either never answers (status 0) or, from version 5 on, hands
\* the error to its default handler (500).
LoginThrows(v) ==
  IF v \in {"server", "p480"} THEN {[status |-> 500, body |-> [success |-> FALSE]]}
  ELSE {[status |-> 0, body |-> [none |-> Undef]],
        [status |-> 500, body |-> [error |-> "Internal Server Error"]]}

Login(ck, username, password) ==
  LET sess == LoadSession(ck)
      req == Request("POST /admin/login", ck, 0,
                     [username |-> username, password |-> password])
      match == bcryptCompare(variant, password)
  IN
  /\ IF username # AdminUsername
       THEN /\ last' = Response(req, 401, [success |-> FALSE], FALSE, 0)
            /\ UNCHANGED <<sessions, nextSid>>
     ELSE IF match = "throw"
       THEN /\ \E out \in LoginThrows(variant) : last' = Response(req, out.status, out.body, FALSE, 0)
            /\ UNCHANGED <<sessions, nextSid>>
     ELSE IF match = "false"
       THEN /\ last' = Response(req, 401, [success |-> FALSE], FALSE, 0)
            /\ UNCHANGED <<sessions, nextSid>>
     ELSE /\ sess.fresh => nextSid <= MaxSessions
          /\ sessions' = SessionSetAdmin(sessions, sess)
          /\ nextSid' = IF sess.fresh THEN nextSid + 1 ELSE nextSid
          /\ last' = Response(req, 200, [success |-> TRUE], FALSE, 0)
  /\ UNCHANGED <<variant, itemsColumn, db, inflight>>

(* ------------------------------- logout -------------------------------- *)
\* req.session.destroy(): the store drops the record of the request's session
SessionDestroyKeepsRecord(store, sess) == store
SessionDestroy(store, sess) ==
  IF sess.fresh THEN store
  ELSE [store EXCEPT ![sess.id] = [exists |-> FALSE, admin |-> Undef, gone |-> "destroyed"]]

Logout(ck) ==
  LET sess == LoadSession(ck)
      req == Request("POST /admin/logout", ck, 0, [none |-> Undef])
  IN
  /\ sessions' = SessionDestroy(sessions, sess)
  /\ last' = Response(req, 200, [success |-> TRUE], FALSE, 0)
  /\ UNCHANGED <<variant, itemsColumn, nextSid, db, inflight>>

\* cookie.maxAge (one hour) passes for a stored session
Expire(sid) ==
  /\ sessions[sid].exists
  /\ sessions' = [sessions EXCEPT
                    ![sid] = [exists |-> FALSE, admin |-> Undef, gone |-> "expired"]]
  /\ last' = NoResponse
  /\ UNCHANGED <<variant, itemsColumn, nextSid, db, inflight>>

(* ------------------------- handlers: common parts ---------------------- *)
\* the guard's 401: the handler never runs
Deny(req) ==
  /\ last' = Response(req, 401, DenyBody(variant), FALSE, 0)
  /\ UNCHANGED inflight

\* the handler reaches `await pool.query(...)` and is suspended
Suspend(req) ==
  /\ Cardinality(inflight) < MaxInflight
  /\ req \notin inflight
  /\ inflight' = inflight \cup {req}
  /\ last' = NoResponse

\* the query has run; the handler resumes and answers
Resume(r, status, body, rowCount) ==
  /\ inflight' = inflight \ {r}
  /\ last' = Response(r, status, body, TRUE, rowCount)

Pending(op) == Cardinality({r \in inflight : r.op = op})

\* node-postgres sends an undefined parameter as NULL
PgParam(v) == IF v = Undef THEN Null ELSE v

\* the body of the 500 each catch block sends
Err500(v, op) ==
  IF v \in {"p61", "p268"} THEN [error |-> "Database error"]
  ELSE IF op \in {"GET /api/pizzas", "GET /api/orders", "GET /api/messages"}
    THEN [rows |-> <<>>]
  ELSE IF op = "POST /api/pizzas" THEN [error |-> "Failed to add pizza"]
  ELSE [success |-> FALSE]

\* the body of a successful insert, update or delete
OkBody(v, op) ==
  IF v # "p268" \/ op \in {"PATCH /api/orders/:id", "POST /api/confirm-payment/:id"}
    THEN [success |-> TRUE]
  ELSE IF op = "POST /api/pizzas" THEN [message |-> "Pizza added"]
  ELSE IF op = "POST /api/messages" THEN [message |-> "Saved"]
  ELSE [message |-> "Deleted"]

RECURSIVE AscById(_)
AscById(S) ==
  IF S = {} THEN <<>>
  ELSE LET m == CHOOSE x \in S : \A y \in S : x.id <= y.id
       IN <<m>> \o AscById(S \ {m})

RECURSIVE DescByCreatedAt(_)
DescByCreatedAt(S) ==
  IF S = {} THEN <<>>
  ELSE LET m == CHOOSE x \in S : \A y \in S : x.created_at >= y.created_at
       IN <<m>> \o DescByCreatedAt(S \ {m})

(* ------------------------------- pizzas -------------------------------- *)
PizzaBodies ==
  { [name |-> "Margherita", price |-> "9", image |-> "m.png"],
    [name |-> "Margherita", price |-> "9", image |-> Undef],
    [name |-> "Margherita", price |-> Undef, image |-> "m.png"],
    [name |-> Undef, price |-> "9", image |-> "m.png"] }

\* Number(price)
NumberOf(x) == IF x = Undef THEN "NaN" ELSE x

\* if (!name || !price || !image) return 400, where the variant has the check
HasFieldCheck(v) == v \in {"server", "p480"}
MissingFields(v, body) ==
  HasFieldCheck(v) /\ (~Truthy(body.name) \/ ~Truthy(body.price) \/ ~Truthy(body.image))

\* createTables.js: pizzas.name and pizzas.price are NOT NULL
PizzaRowOk(row) == row.name # Null /\ row.price # Null

GetPizzas(ck) ==
  /\ Suspend(Request("GET /api/pizzas", ck, 0, [none |-> Undef]))
  /\ UNCHANGED <<variant, itemsColumn, sessions, nextSid, db>>

GetPizzasQuery(r, ok) ==
  /\ r \in inflight /\ r.op = "GET /api/pizzas"
  /\ IF ok THEN Resume(r, 200, [rows |-> AscById(pizzas)], Cardinality(pizzas))
     ELSE Resume(r, 500, Err500(variant, r.op), 0)
  /\ UNCHANGED <<variant, itemsColumn, sessions, nextSid, db>>

PostPizzas(ck, body) ==
  LET req == Request("POST /api/pizzas", ck, 0, body) IN
  /\ IF ~adminAuth(variant, LoadSession(ck)) THEN Deny(req)
     ELSE IF MissingFields(variant, body)
       THEN /\ last' = Response(req, 400, [error |-> "Missing fields"], FALSE, 0)
            /\ UNCHANGED inflight
     ELSE /\ pizzaSeq + Pending("POST /api/pizzas") < MaxPizzas
          /\ Suspend(req)
  /\ UNCHANGED <<variant, itemsColumn, sessions, nextSid, db>>

PostPizzasQuery(r, ok) ==
  LET row == [id |-> pizzaSeq + 1, name |-> PgParam(r.body.name),
              price |-> PgParam(NumberOf(r.body.price)),
              image |-> PgParam(r.body.image)]
  IN
  /\ r \in inflight /\ r.op = "POST /api/pizzas"
  /\ IF ~ok
       THEN /\ Resume(r, 500, Err500(variant, r.op), 0)
            /\ UNCHANGED <<pizzas, pizzaSeq>>
     ELSE IF ~PizzaRowOk(row)
       THEN /\ Resume(r, 500, Err500(variant, r.op), 0)
            /\ pizzaSeq' = pizzaSeq + 1
            /\ UNCHANGED pizzas
     ELSE /\ pizzas' = pizzas \cup {row}
          /\ pizzaSeq' = pizzaSeq + 1
          /\ Resume(r, 200, OkBody(variant, r.op), 1)
  /\ UNCHANGED <<variant, itemsColumn, sessions, nextSid, orders, messages, orderSeq, messageSeq>>

PizzaIds == 1..(MaxPizzas + 1)

DeletePizzas(ck, id) ==
  LET req == Request("DELETE /api/pizzas/:id", ck, id, [none |-> Undef]) IN
  /\ IF ~adminAuth(variant, LoadSession(ck)) THEN Deny(req) ELSE Suspend(req)
  /\ UNCHANGED <<variant, itemsColumn, sessions, nextSid, db>>

\* what a DELETE answers once the query has run
DeleteAnswer(v, op, rowCount) == [status |-> 200, body |-> OkBody(v, op)]

DeletePizzasQuery(r, ok) ==
  LET hit == {p \in pizzas : p.id = r.id} IN
  /\ r \in inflight /\ r.op = "DELETE /api/pizzas/:id"
  /\ IF ~ok
       THEN /\ Resume(r, 500, Err500(variant, r.op), 0)
            /\ UNCHANGED pizzas
     ELSE /\ pizzas' = pizzas \ hit
          /\ Resume(r, DeleteAnswer(variant, r.op, Cardinality(hit)).status,
                    DeleteAnswer(variant, r.op, Cardinality(hit)).body,
                    Cardinality(hit))
  /\ UNCHANGED <<variant, itemsColumn, sessions, nextSid, orders, messages,
                 pizzaSeq, orderSeq, messageSeq>>

(* ------------------------------- orders -------------------------------- *)
\* JSON.stringify / JSON.parse on the items of an order: "[items]" is the
\* array the client sends, "'[items]'" its JSON text.
JSONstringify(x) == IF x = "[items]" THEN "'[items]'" ELSE x
JSONparse(x) == IF x = "'[items]'" THEN "[items]" ELSE x
IsString(x) == x = "'[items]'"

PaymentMethods == {Undef, "", "COD", "Online"}

OrderBodies ==
  { [name |-> "A", phone |-> "1", address |-> "x", items |-> "[items]",
     total |-> "20", paymentMethod |-> pm] : pm \in PaymentMethods }

\* const payment_method = paymentMethod || "COD"   (server.js, p480)
PaymentMethodOf(v, pm) ==
  IF v \in {"server", "p480"} THEN (IF Truthy(pm) THEN pm ELSE "COD") ELSE pm

\* payment_method === "COD" ? "Paid" : "Pending"   (server.js, p480)
\* paymentMethod === "COD" ? "COD" : "Pending"     (p61, p268)
PaymentStatusAlwaysPending(v, pm) == "Pending"
PaymentStatusOf(v, pm) ==
  IF v \in {"server", "p480"}
    THEN (IF PaymentMethodOf(v, pm) = "COD" THEN "Paid" ELSE "Pending")
    ELSE (IF pm = "COD" THEN "COD" ELSE "Pending")

\* paymentRequired: payment_method !== "COD"
PaymentRequired(v, pm) == PaymentMethodOf(v, pm) # "COD"

OrderIds == 1..(MaxOrders + 1)

PostOrders(ck, body) ==
  /\ orderSeq + Pending("POST /api/orders") < MaxOrders
  /\ Suspend(Request("POST /api/orders", ck, 0, body))
  /\ UNCHANGED <<variant, itemsColumn, sessions, nextSid, db>>

PostOrdersQuery(r, ok) ==
  LET row == [id |-> orderSeq + 1,
              name |-> PgParam(r.body.name), phone |-> PgParam(r.body.phone),
              address |-> PgParam(r.body.address),
              items |-> PgParam(JSONstringify(r.body.items)),
              total |-> PgParam(r.body.total),
              payment_method |-> PgParam(PaymentMethodOf(variant, r.body.paymentMethod)),
              payment_status |-> PaymentStatusOf(variant, r.body.paymentMethod),
              transaction_id |-> Null, status |-> Null,
              created_at |-> orderSeq + 1]
  IN
  /\ r \in inflight /\ r.op = "POST /api/orders"
  /\ IF ~ok
       THEN /\ Resume(r, 500, Err500(variant, r.op), 0)
            /\ UNCHANGED <<orders, orderSeq>>
     ELSE /\ orders' = orders \cup {row}
          /\ orderSeq' = orderSeq + 1
          /\ Resume(r, 200,
                    [orderId |-> row.id,
                     paymentRequired |-> PaymentRequired(variant, r.body.paymentMethod)],
                    1)
  /\ UNCHANGED <<variant, itemsColumn, sessions, nextSid, pizzas, messages, pizzaSeq, messageSeq>>

\* rows.map(o => ({...o, items: typeof o.items === "string" ? JSON.parse(o.items) : o.items}))
FixItems(v, row) ==
  IF v \in {"server", "p480"} /\ IsString(row.items)
    THEN [row EXCEPT !.items = JSONparse(row.items)]
    ELSE row

\* node-postgres parses a JSON column when it reads a row, and hands a text
\* column over as the string stored
PgRow(row) ==
  IF itemsColumn = "json" THEN [row EXCEPT !.items = JSONparse(row.items)]
  ELSE row

MapRowsNewestOnly(rows, v) ==
  [i \in 1..(IF Len(rows) > 1 THEN 1 ELSE Len(rows)) |-> FixItems(v, PgRow(rows[i]))]
MapRows(rows, v) == [i \in 1..Len(rows) |-> FixItems(v, PgRow(rows[i]))]

GetOrders(ck) ==
  LET req == Request("GET /api/orders", ck, 0, [none |-> Undef]) IN
  /\ IF ~adminAuth(variant, LoadSession(ck)) THEN Deny(req) ELSE Suspend(req)
  /\ UNCHANGED <<variant, itemsColumn, sessions, nextSid, db>>

GetOrdersQuery(r, ok) ==
  /\ r \in inflight /\ r.op = "GET /api/orders"
  /\ IF ok THEN Resume(r, 200, [rows |-> MapRows(DescByCreatedAt(orders), variant)],
                       Cardinality(orders))
     ELSE Resume(r, 500, Err500(variant, r.op), 0)
  /\ UNCHANGED <<variant, itemsColumn, sessions, nextSid, db>>

\* PATCH /api/orders/:id exists in server.js, p268 and p480
HasPatch(v) == v \in {"server", "p268", "p480"}

PatchBodies ==
  { [payment_status |-> a, paymentStatus |-> Undef, status |-> Undef]
      : a \in {"Paid", "Pending"} }
  \cup { [payment_status |-> Undef, paymentStatus |-> a, status |-> Undef]
      : a \in {"Paid"} }
  \cup { [payment_status |-> Undef, paymentStatus |-> Undef, status |-> "Delivered"] }

PatchOrders(ck, id, body) ==
  LET req == Request("PATCH /api/orders/:id", ck, id, body) IN
  /\ HasPatch(variant)
  /\ IF ~adminAuth(variant, LoadSession(ck)) THEN Deny(req) ELSE Suspend(req)
  /\ UNCHANGED <<variant, itemsColumn, sessions, nextSid, db>>

\* UPDATE orders SET payment_status=$1 WHERE id=$2   (server.js, p480)
\* UPDATE orders SET status=$1 WHERE id=$2           (p268)
PatchRowCamelCase(v, row, body) ==
  IF v = "p268" THEN [row EXCEPT !.status = PgParam(body.status)]
  ELSE [row EXCEPT !.payment_status = PgParam(body.paymentStatus)]
PatchRow(v, row, body) ==
  IF v = "p268" THEN [row EXCEPT !.status = PgParam(body.status)]
  ELSE [row EXCEPT !.payment_status = PgParam(body.payment_status)]

\* the table after the UPDATE ... WHERE id=$2 of PATCH
PatchTableEveryRow(v, rows, id, body) == {PatchRow(v, o, body) : o \in rows}
PatchTable(v, rows, id, body) ==
  {IF o.id = id THEN PatchRow(v, o, body) ELSE o : o \in rows}

\* what PATCH answers once the query has run: p268 checks result.rowCount
PatchAnswer(v, op, rowCount) ==
  IF v = "p268" /\ rowCount = 0
    THEN [status |-> 404, body |-> [success |-> FALSE]]
    ELSE [status |-> 200, body |-> OkBody(v, op)]

PatchOrdersQuery(r, ok) ==
  LET hit == {o \in orders : o.id = r.id}
      ans == PatchAnswer(variant, r.op, Cardinality(hit))
  IN
  /\ r \in inflight /\ r.op = "PATCH /api/orders/:id"
  /\ IF ~ok
       THEN /\ Resume(r, 500, Err500(variant, r.op), 0)
            /\ UNCHANGED orders
     ELSE /\ orders' = PatchTable(variant, orders, r.id, r.body)
          /\ Resume(r, ans.status, ans.body, Cardinality(hit))
  /\ UNCHANGED <<variant, itemsColumn, sessions, nextSid, pizzas, messages,
                 pizzaSeq, orderSeq, messageSeq>>

\* POST /api/confirm-payment/:id exists in p268 only, and has no guard
HasConfirmPayment(v) == v = "p268"

ConfirmBodies == {[transactionId |-> t] : t \in {Undef, "TX1"}}

\* const { transactionId = "N/A" } = req.body
TransactionIdOf(body) == IF body.transactionId = Undef THEN "N/A" ELSE body.transactionId

\* UPDATE orders SET transaction_id=$1, payment_status='Paid' WHERE id=$2
ConfirmRow(row, body) ==
  [row EXCEPT !.transaction_id = TransactionIdOf(body), !.payment_status = "Paid"]

ConfirmTable(rows, id, body) ==
  {IF o.id = id THEN ConfirmRow(o, body) ELSE o : o \in rows}

ConfirmPayment(ck, id, body) ==
  /\ HasConfirmPayment(variant)
  /\ Suspend(Request("POST /api/confirm-payment/:id", ck, id, body))
  /\ UNCHANGED <<variant, itemsColumn, sessions, nextSid, db>>

ConfirmPaymentQuery(r, ok) ==
  LET hit == {o \in orders : o.id = r.id}
  IN
  /\ r \in inflight /\ r.op = "POST /api/confirm-payment/:id"
  /\ IF ~ok
       THEN /\ Resume(r, 500, Err500(variant, r.op), 0)
            /\ UNCHANGED orders
     ELSE /\ orders' = ConfirmTable(orders, r.id, r.body)
          /\ IF hit = {} THEN Resume(r, 404, [success |-> FALSE], 0)
             ELSE Resume(r, 200, OkBody(variant, r.op), Cardinality(hit))
  /\ UNCHANGED <<variant, itemsColumn, sessions, nextSid, pizzas, messages,
                 pizzaSeq, orderSeq, messageSeq>>

\* DELETE /api/orders/:id exists in server.js, p268 and p480
HasDeleteOrders(v) == v \in {"server", "p268", "p480"}

DeleteOrders(ck, id) ==
  LET req == Request("DELETE /api/orders/:id", ck, id, [none |-> Undef]) IN
  /\ HasDeleteOrders(variant)
  /\ IF ~adminAuth(variant, LoadSession(ck)) THEN Deny(req) ELSE Suspend(req)
  /\ UNCHANGED <<variant, itemsColumn, sessions, nextSid, db>>

DeleteOrdersQuery(r, ok) ==
  LET hit == {o \in orders : o.id = r.id}
      ans == DeleteAnswer(variant, r.op, Cardinality(hit))
  IN
  /\ r \in inflight /\ r.op = "DELETE /api/orders/:id"
  /\ IF ~ok
       THEN /\ Resume(r, 500, Err500(variant, r.op), 0)
            /\ UNCHANGED orders
     ELSE /\ orders' = orders \ hit
          /\ Resume(r, ans.status, ans.body, Cardinality(hit))
  /\ UNCHANGED <<variant, itemsColumn, sessions, nextSid, pizzas, messages,
                 pizzaSeq, orderSeq, messageSeq>>

(* ------------------------------ messages ------------------------------- *)
MessageBodies == {[name |-> "A", email |-> "a@x", message |-> "hello"]}

MessageIds == 1..(MaxMessages + 1)

GetMessages(ck) ==
  LET req == Request("GET /api/messages", ck, 0, [none |-> Undef]) IN
  /\ IF ~adminAuth(variant, LoadSession(ck)) THEN Deny(req) ELSE Suspend(req)
  /\ UNCHANGED <<variant, itemsColumn, sessions, nextSid, db>>

GetMessagesQuery(r, ok) ==
  /\ r \in inflight /\ r.op = "GET /api/messages"
  /\ IF ok THEN Resume(r, 200, [rows |-> DescByCreatedAt(messages)],
                       Cardinality(messages))
     ELSE Resume(r, 500, Err500(variant, r.op), 0)
  /\ UNCHANGED <<variant, itemsColumn, sessions, nextSid, db>>

PostMessages(ck, body) ==
  /\ messageSeq + Pending("POST /api/messages") < MaxMessages
  /\ Suspend(Request("POST /api/messages", ck, 0, body))
  /\ UNCHANGED <<variant, itemsColumn, sessions, nextSid, db>>

PostMessagesQuery(r, ok) ==
  LET row == [id |-> messageSeq + 1, name |-> PgParam(r.body.name),
              email |-> PgParam(r.body.email), message |-> PgParam(r.body.message),
              created_at |-> messageSeq + 1]
  IN
  /\ r \in inflight /\ r.op = "POST /api/messages"
  /\ IF ~ok
       THEN /\ Resume(r, 500, Err500(variant, r.op), 0)
            /\ UNCHANGED <<messages, messageSeq>>
     ELSE /\ messages' = messages \cup {row}
          /\ messageSeq' = messageSeq + 1
          /\ Resume(r, 200, OkBody(variant, r.op), 1)
  /\ UNCHANGED <<variant, itemsColumn, sessions, nextSid, pizzas, orders, pizzaSeq, orderSeq>>

\* DELETE /api/messages/:id exists in p268 and p480
HasDeleteMessages(v) == v \in {"p268", "p480"}

DeleteMessages(ck, id) ==
  LET req == Request("DELETE /api/messages/:id", ck, id, [none |-> Undef]) IN
  /\ HasDeleteMessages(variant)
  /\ IF ~adminAuth(variant, LoadSession(ck)) THEN Deny(req) ELSE Suspend(req)
  /\ UNCHANGED <<variant, itemsColumn, sessions, nextSid, db>>

DeleteMessagesQuery(r, ok) ==
  LET hit == {m \in messages : m.id = r.id}
      ans == DeleteAnswer(variant, r.op, Cardinality(hit))
  IN
  /\ r \in inflight /\ r.op = "DELETE /api/messages/:id"
  /\ IF ~ok
       THEN /\ Resume(r, 500, Err500(variant, r.op), 0)
            /\ UNCHANGED messages
     ELSE /\ messages' = messages \ hit
          /\ Resume(r, ans.status, ans.body, Cardinality(hit))
  /\ UNCHANGED <<variant, itemsColumn, sessions, nextSid, pizzas, orders,
                 pizzaSeq, orderSeq, messageSeq>>

(* ------------------------------- health -------------------------------- *)
Health(ck) ==
  /\ last' = Response(Request("GET /health", ck, 0, [none |-> Undef]),
                      200, [status |-> "ok"], FALSE, 0)
  /\ UNCHANGED <<variant, itemsColumn, sessions, nextSid, db, inflight>>

(* ---------------------------- specification ---------------------------- *)
\* login, logout and the passing of time
NextSession ==
  \/ \E ck \in Cookies, u \in Usernames, p \in Passwords : Login(ck, u, p)
  \/ \E ck \in Cookies : Logout(ck)
  \/ \E sid \in Sids : Expire(sid)

\* the routes that run adminAuth first
NextPrivileged ==
  \/ \E ck \in Cookies, b \in PizzaBodies : PostPizzas(ck, b)
  \/ \E r \in inflight, ok \in BOOLEAN : PostPizzasQuery(r, ok)
  \/ \E ck \in Cookies, id \in PizzaIds : DeletePizzas(ck, id)
  \/ \E r \in inflight, ok \in BOOLEAN : DeletePizzasQuery(r, ok)
  \/ \E ck \in Cookies : GetOrders(ck)
  \/ \E r \in inflight, ok \in BOOLEAN : GetOrdersQuery(r, ok)
  \/ \E ck \in Cookies, id \in OrderIds, b \in PatchBodies : PatchOrders(ck, id, b)
  \/ \E r \in inflight, ok \in BOOLEAN : PatchOrdersQuery(r, ok)
  \/ \E ck \in Cookies, id \in OrderIds : DeleteOrders(ck, id)
  \/ \E r \in inflight, ok \in BOOLEAN : DeleteOrdersQuery(r, ok)
  \/ \E ck \in Cookies : GetMessages(ck)
  \/ \E r \in inflight, ok \in BOOLEAN : GetMessagesQuery(r, ok)
  \/ \E ck \in Cookies, id \in MessageIds : DeleteMessages(ck, id)
  \/ \E r \in inflight, ok \in BOOLEAN : DeleteMessagesQuery(r, ok)

\* the routes that do not
NextPublic ==
  \/ \E ck \in Cookies : GetPizzas(ck)
  \/ \E r \in inflight, ok \in BOOLEAN : GetPizzasQuery(r, ok)
  \/ \E ck \in Cookies, b \in OrderBodies : PostOrders(ck, b)
  \/ \E r \in inflight, ok \in BOOLEAN : PostOrdersQuery(r, ok)
  \/ \E ck \in Cookies, id \in OrderIds, b \in ConfirmBodies : ConfirmPayment(ck, id, b)
  \/ \E r \in inflight, ok \in BOOLEAN : ConfirmPaymentQuery(r, ok)
  \/ \E ck \in Cookies, b \in MessageBodies : PostMessages(ck, b)
  \/ \E r \in inflight, ok \in BOOLEAN : PostMessagesQuery(r, ok)
  \/ \E ck \in Cookies : Health(ck)

Next == NextSession \/ NextPrivileged \/ NextPublic

Spec == Init /\ [][Next]_vars

(***************************************************************************)
(* Spec lets every request overlap every other.  The specifications below  *)
(* serve the requests of some routes one at a time: a request arrives      *)
(* (and logins, logouts and expiries happen) only while no other request   *)
(* is suspended.  The three tables are touched by their own routes only.   *)
(***************************************************************************)
Idle == inflight = {}

SeqSession ==
  \/ \E ck \in Cookies, u \in Usernames, p \in Passwords : Idle /\ Login(ck, u, p)
  \/ \E ck \in Cookies : Idle /\ Logout(ck)
  \/ \E sid \in Sids : Idle /\ Expire(sid)

SeqPizzas ==
  \/ \E ck \in Cookies : Idle /\ GetPizzas(ck)
  \/ \E r \in inflight, ok \in BOOLEAN : GetPizzasQuery(r, ok)
  \/ \E ck \in Cookies, b \in PizzaBodies : Idle /\ PostPizzas(ck, b)
  \/ \E r \in inflight, ok \in BOOLEAN : PostPizzasQuery(r, ok)
  \/ \E ck \in Cookies, id \in PizzaIds : Idle /\ DeletePizzas(ck, id)
  \/ \E r \in inflight, ok \in BOOLEAN : DeletePizzasQuery(r, ok)

SeqOrdersAdmin ==
  \/ \E ck \in Cookies : Idle /\ GetOrders(ck)
  \/ \E r \in inflight, ok \in BOOLEAN : GetOrdersQuery(r, ok)
  \/ \E ck \in Cookies, id \in OrderIds, b \in PatchBodies : Idle /\ PatchOrders(ck, id, b)
  \/ \E r \in inflight, ok \in BOOLEAN : PatchOrdersQuery(r, ok)
  \/ \E ck \in Cookies, id \in OrderIds : Idle /\ DeleteOrders(ck, id)
  \/ \E r \in inflight, ok \in BOOLEAN : DeleteOrdersQuery(r, ok)

SeqOrdersPublic ==
  \/ \E ck \in Cookies, b \in OrderBodies : Idle /\ PostOrders(ck, b)
  \/ \E r \in inflight, ok \in BOOLEAN : PostOrdersQuery(r, ok)
  \/ \E ck \in Cookies, id \in OrderIds, b \in ConfirmBodies : Idle /\ ConfirmPayment(ck, id, b)
  \/ \E r \in inflight, ok \in BOOLEAN : ConfirmPaymentQuery(r, ok)

SeqMessages ==
  \/ \E ck \in Cookies : Idle /\ GetMessages(ck)
  \/ \E r \in inflight, ok \in BOOLEAN : GetMessagesQuery(r, ok)
  \/ \E ck \in Cookies, b \in MessageBodies : Idle /\ PostMessages(ck, b)
  \/ \E r \in inflight, ok \in BOOLEAN : PostMessagesQuery(r, ok)
  \/ \E ck \in Cookies, id \in MessageIds : Idle /\ DeleteMessages(ck, id)
  \/ \E r \in inflight, ok \in BOOLEAN : DeleteMessagesQuery(r, ok)

\* an order paid on delivery, the only order SpecGuard places
CodOrder ==
  [name |-> "A", phone |-> "1", address |-> "x", items |-> "[items]",
   total |-> "20", paymentMethod |-> "COD"]

SeqCodOrders ==
  \/ \E ck \in Cookies : Idle /\ PostOrders(ck, CodOrder)
  \/ \E r \in inflight, ok \in BOOLEAN : PostOrdersQuery(r, ok)

\* login, logout and expiry alone
SpecSession == Init /\ [][SeqSession]_vars

\* sessions and the catalog and message routes
SpecCatalog == Init /\ [][SeqSession \/ SeqPizzas \/ SeqMessages]_vars

\* sessions and the order routes
SpecOrders == Init /\ [][SeqSession \/ SeqOrdersAdmin \/ SeqOrdersPublic]_vars

\* sessions and every route that runs the guard; no order is ever placed
SpecAdmin ==
  Init /\ [][SeqSession \/ SeqPizzas \/ SeqMessages \/ SeqOrdersAdmin]_vars

\* sessions and every route that runs the guard, over tables that hold rows
SpecGuard ==
  Init /\ [][SeqSession \/ SeqPizzas \/ SeqMessages \/ SeqOrdersAdmin \/ SeqCodOrders]_vars

(* ------------------------------- properties -------------------------------- *)
PrivilegedOps ==
  {"POST /api/pizzas", "DELETE /api/pizzas/:id", "GET /api/orders",
   "PATCH /api/orders/:id", "DELETE /api/orders/:id", "GET /api/messages",
   "DELETE /api/messages/:id"}

\* the store returns an admin session for this cookie
SessionIsAdmin(ck) ==
  ck \in Sids /\ sessions[ck].exists /\ sessions[ck].admin = "true"

\* this step answered a request on a privileged route before any query
AnsweredAtGuard == last'.req.op \in PrivilegedOps /\ ~last'.queried

\* the privileged requests this step suspended at their query
SuspendedNow == {r \in inflight' \ inflight : r.op \in PrivilegedOps}

\* C1: a request on a privileged route whose session is absent or has no
\* admin flag is answered 401 in the step it arrives, without a query being
\* issued and with the three tables and their sequences unchanged; a
\* privileged request reaches its query only from an admin session.
C1_GuardBeforeStore ==
  [][ /\ (AnsweredAtGuard /\ ~SessionIsAdmin(last'.req.ck))
         => (last'.status = 401 /\ db' = db /\ inflight' = inflight)
      /\ \A r \in SuspendedNow : SessionIsAdmin(r.ck)
      /\ (last'.req.op \in PrivilegedOps /\ last'.queried) => last'.req.admin
    ]_vars

C1_Witness ==
  /\ last.req.op = "DELETE /api/orders/:id" /\ last.status = 401
  /\ last.req.id \in {o.id : o \in orders}
  /\ pizzas # {} /\ messages # {}

\* C2: the guard lets a privileged request through exactly when its cookie
\* names a session the store holds, unexpired, with admin = true; every
\* other request (no cookie, unknown id, expired, destroyed) gets 401 with
\* one and the same body.
C2_GuardIffAdminSession ==
  [][ /\ AnsweredAtGuard =>
           /\ (last'.status = 401) <=> ~SessionIsAdmin(last'.req.ck)
           /\ (last'.status = 401) =>
                last'.body = (IF variant \in {"server", "p480"}
                                THEN [error |-> "Unauthorized"]
                                ELSE [success |-> FALSE])
      /\ \A r \in SuspendedNow : SessionIsAdmin(r.ck)
    ]_vars

C2_Witness ==
  /\ last.req.op \in PrivilegedOps /\ last.status = 401
  /\ last.req.ck \in Sids /\ sessions[last.req.ck].gone = "expired"

\* C3: a login with the administrator's username and password answers
\* {success: true} and leaves an admin session; every other login answers
\* 401 {success: false}.
C3_LoginUniformFailure ==
  last.req.op = "POST /admin/login" =>
    IF /\ last.req.body.username = AdminUsername
       /\ last.req.body.password = AdminPassword(variant)
    THEN /\ last.status = 200 /\ last.body = [success |-> TRUE]
         /\ \E s \in Sids : sessions[s].exists /\ sessions[s].admin = "true"
    ELSE last.status = 401 /\ last.body = [success |-> FALSE]

\* C4: logout answers {success: true} whatever the request's session, the
\* store no longer returns the session it named, a destroyed session is
\* never returned again, and a privileged request presenting it is denied.
C4_LogoutEndsSession ==
  [][ /\ last'.req.op = "POST /admin/logout" =>
           /\ last'.status = 200 /\ last'.body = [success |-> TRUE]
           /\ last'.req.ck \in Sids => ~sessions'[last'.req.ck].exists
      /\ \A s \in Sids : sessions[s].gone = "destroyed" => sessions'[s] = sessions[s]
      /\ (AnsweredAtGuard /\ last'.req.ck \in Sids
            /\ sessions[last'.req.ck].gone = "destroyed") => last'.status = 401
      /\ \A r \in SuspendedNow : r.ck \in Sids => sessions[r.ck].gone # "destroyed"
    ]_vars

C4_Witness ==
  /\ last.req.op \in PrivilegedOps /\ last.status = 401
  /\ last.req.ck \in Sids /\ sessions[last.req.ck].gone = "destroyed"

\* the stored order a request names, once it is known to exist
OrderOf(id) == CHOOSE o \in orders : o.id = id

\* this state follows the insert of an order
OrderCreated == last.req.op = "POST /api/orders" /\ last.status = 200

\* the payment states that count as settled: "Paid", and "COD" in p61, p268
Settled == {"Paid", "COD"}

C6_MissingIdIs404 ==
  ( /\ last.req.op \in {"DELETE /api/pizzas/:id", "DELETE /api/orders/:id",
                        "DELETE /api/messages/:id", "PATCH /api/orders/:id"}
    /\ last.queried /\ last.status # 500 /\ last.rowCount = 0 )
  => last.status = 404

\* C7: POST /api/pizzas without name, price or image is answered 401 to a
\* caller without an admin session and 400 to an admin, and never reaches
\* the INSERT.
C7_GuardThenValidation ==
  ( /\ last.req.op = "POST /api/pizzas"
    /\ Undef \in {last.req.body.name, last.req.body.price, last.req.body.image} )
  => /\ last.status = (IF last.req.admin THEN 400 ELSE 401)
     /\ ~last.queried

\* C8: an order whose payment status is Paid keeps it while the order exists.
C8_PaidIsTerminal ==
  [][ \A o \in orders : \A n \in orders' :
        (n.id = o.id /\ o.payment_status = "Paid") => n.payment_status = "Paid" ]_vars

\* C9 as stated: an admin PATCH with body {paymentStatus: v} on an existing
\* order answers {success: true} and leaves the order's payment status v.
C9_PatchPaymentStatus ==
  ( /\ last.req.op = "PATCH /api/orders/:id"
    /\ last.req.body.paymentStatus # Undef
    /\ last.rowCount = 1 )
  => /\ last.status = 200 /\ last.body = [success |-> TRUE]
     /\ \E o \in orders : /\ o.id = last.req.id
                          /\ o.payment_status = last.req.body.paymentStatus

\* C9 as the code has it: an admin PATCH on an existing order answers {success:
\* true}; server.js and p480 read the body's payment_status and leave the
\* order's payment status equal to it, NULL when the body has none (a body
\* {paymentStatus: v} has none); p268 reads status and leaves the payment
\* status as it was.
C9_PatchReadsPaymentStatusField ==
  [][ ( /\ last'.req.op = "PATCH /api/orders/:id"
        /\ last'.rowCount = 1 )
      => /\ last'.status = 200 /\ last'.body = [success |-> TRUE]
         /\ \A o \in orders : o.id = last'.req.id =>
              \E n \in orders' :
                /\ n.id = o.id
                /\ n.payment_status =
                     (IF variant = "p268" THEN o.payment_status
                      ELSE IF last'.req.body.payment_status = Undef THEN Null
                      ELSE last'.req.body.payment_status)
    ]_vars

C9_Witness ==
  /\ variant = "server"
  /\ last.req.op = "PATCH /api/orders/:id" /\ last.status = 200
  /\ last.req.body.payment_status = "Pending"
  /\ \E o \in orders : /\ o.id = last.req.id /\ o.payment_method = "COD"
                       /\ o.payment_status = "Pending"

\* the fields of an order that are set at creation
Created(o) ==
  <<o.id, o.name, o.phone, o.address, o.items, o.total, o.payment_method,
    o.created_at>>

\* C10 as stated: the creation fields of a stored order never change, and
\* an order changes only in a step that answers an admin session's request
\* for that order's id.
C10_OnlyAdminChanges ==
  [][ \A o \in orders : \A n \in orders' : n.id = o.id =>
        /\ Created(n) = Created(o)
        /\ n # o => /\ last'.queried /\ last'.req.id = o.id
                    /\ last'.req.admin
    ]_vars

\* C10 as the code has it: as stated, except that in p268 the unguarded
\* POST /api/confirm-payment/:id also changes the order it names, for any
\* caller.
C10_AdminOrConfirmPaymentChanges ==
  [][ \A o \in orders : \A n \in orders' : n.id = o.id =>
        /\ Created(n) = Created(o)
        /\ n # o =>
             /\ last'.queried /\ last'.req.id = o.id
             /\ \/ last'.req.admin /\ last'.req.op = "PATCH /api/orders/:id"
                \/ variant = "p268" /\ last'.req.op = "POST /api/confirm-payment/:id"
    ]_vars

C10_Witness ==
  /\ last.req.op = "PATCH /api/orders/:id" /\ last.status = 200
  /\ last.req.id = 1 /\ last.req.body.payment_status = "Pending"
  /\ \E o \in orders : o.id = 1 /\ o.payment_status = "Pending"
  /\ \E o \in orders : o.id = 2 /\ o.payment_status = "Paid"

\* the id and payment status of each row of a listing
ListedOrders(rows) == {<<rows[i].id, rows[i].payment_status>> : i \in 1..Len(rows)}

\* C11: a stored order leaves the table only in a step that answers an
\* admin's DELETE /api/orders/:id for its id; an order that enters the table
\* has an id never handed out before (so a deleted order never comes back)
\* and, placed with paymentMethod "COD", a settled payment status; and every
\* successful admin listing holds each stored order once, with its id and
\* its payment status as stored.
C11_OrderPersistsUntilDeleted ==
  [][ /\ \A o \in orders : (\A n \in orders' : n.id # o.id) =>
           /\ last'.req.op = "DELETE /api/orders/:id" /\ last'.req.admin
           /\ last'.req.id = o.id /\ last'.status = 200
      /\ \A n \in orders' : (\A o \in orders : o.id # n.id) =>
           /\ n.id > orderSeq /\ n.id <= orderSeq'
           /\ last'.req.op = "POST /api/orders" /\ last'.body.orderId = n.id
           /\ last'.req.body.paymentMethod = "COD" => n.payment_status \in Settled
      /\ orderSeq' >= orderSeq
      /\ \A o \in orders : o.id <= orderSeq
      /\ (last'.req.op = "GET /api/orders" /\ last'.status = 200) =>
           /\ orders' = orders
           /\ Len(last'.body.rows) = Cardinality(orders)
           /\ ListedOrders(last'.body.rows) = {<<o.id, o.payment_status>> : o \in orders}
    ]_vars

\* the first order was deleted; the listing holds the second, a COD order
C11_Witness ==
  /\ last.req.op = "GET /api/orders" /\ last.status = 200
  /\ orderSeq = 2 /\ {o.id : o \in orders} = {2}
  /\ Len(last.body.rows) = 1
  /\ last.body.rows[1].id = 2 /\ last.body.rows[1].payment_method = "COD"
  /\ last.body.rows[1].payment_status \in Settled

\* C12: every row of a successful admin listing has items as a structured
\* value, not as JSON text, whichever way the store handed the column over,
\* and equals the stored row in every other field.
C12_ItemsStructured ==
  (last.req.op = "GET /api/orders" /\ last.status = 200) =>
    \A i \in 1..Len(last.body.rows) :
      /\ ~IsString(last.body.rows[i].items)
      /\ \E o \in orders : [last.body.rows[i] EXCEPT !.items = o.items] = o

\* the query of suspended request r fails in this step
QueryFails(r) ==
  \/ GetPizzasQuery(r, FALSE) \/ PostPizzasQuery(r, FALSE)
  \/ DeletePizzasQuery(r, FALSE)
  \/ GetOrdersQuery(r, FALSE) \/ PostOrdersQuery(r, FALSE)
  \/ PatchOrdersQuery(r, FALSE) \/ DeleteOrdersQuery(r, FALSE)
  \/ ConfirmPaymentQuery(r, FALSE)
  \/ GetMessagesQuery(r, FALSE) \/ PostMessagesQuery(r, FALSE)
  \/ DeleteMessagesQuery(r, FALSE)

\* C13: a step in which the query of a request fails answers that request
\* 500, leaves the three tables as they were and the request no longer
\* suspended (it is not run again); and a login in which bcrypt.compare
\* throws is answered 500.
C13_StoreFailureIs500 ==
  [][ /\ \A r \in inflight : QueryFails(r) =>
           /\ last'.req = r /\ last'.status = 500
           /\ pizzas' = pizzas /\ orders' = orders /\ messages' = messages
           /\ inflight' = inflight \ {r}
      /\ ( /\ last'.req.op = "POST /admin/login"
           /\ last'.req.body.username = AdminUsername
           /\ bcryptCompare(variant, last'.req.body.password) = "throw" )
         => last'.status = 500
    ]_vars

\* a password that was sent and is not the administrator's
WrongPassword(v, p) == p # Undef /\ p # AdminPassword(v)

\* the latest step answered a login with a wrong password
FailedLogin ==
  /\ last.req.op = "POST /admin/login"
  /\ WrongPassword(variant, last.req.body.password)

\* the next step answers a login with the right credentials with success
CorrectLogin ==
  \E ck \in Cookies :
    /\ Idle /\ Login(ck, AdminUsername, AdminPassword(variant))
    /\ last'.status = 200 /\ last'.body = [success |-> TRUE]
    /\ SessionIsAdmin(IF ck \in Sids /\ sessions[ck].exists THEN ck ELSE nextSid)'

\* C14: a login with a wrong password answers 401 {success: false} and
\* leaves the session store, the session ids and the tables as they were;
\* a privileged request without an admin session is denied, also between
\* failed logins; a login with the right credentials answers {success:
\* true} and leaves an admin session; and after a failed login the login
\* with the right credentials can still be made and succeeds (while the
\* store can still hand out a session id).
C14_FailedLoginsNoLockout ==
  /\ [][ /\ FailedLogin' =>
              /\ last'.status = 401 /\ last'.body = [success |-> FALSE]
              /\ sessions' = sessions /\ nextSid' = nextSid /\ db' = db
         /\ (AnsweredAtGuard /\ ~SessionIsAdmin(last'.req.ck)) => last'.status = 401
         /\ ( /\ last'.req.op = "POST /admin/login"
              /\ last'.req.body.username = AdminUsername
              /\ last'.req.body.password = AdminPassword(variant) )
            => /\ last'.status = 200 /\ last'.body = [success |-> TRUE]
               /\ \E s \in Sids : sessions'[s].exists /\ sessions'[s].admin = "true"
       ]_vars
  /\ []((FailedLogin /\ nextSid <= MaxSessions) => ENABLED CorrectLogin)

\* a wrong password was just answered, no session is stored, and the right
\* credentials would now log in
C14_Witness ==
  /\ FailedLogin /\ last.status = 401
  /\ last.req.body.username = AdminUsername
  /\ \A s \in Sids : ~sessions[s].exists
  /\ ENABLED CorrectLogin

\* the payment states the orders are meant to have
PaymentStatuses == {"Pending", "Paid", "COD"}

\* C15: every stored order has a payment status among Pending, Paid and the
\* COD-settled value.
C15_PaymentStatusInEnum ==
  \A o \in orders : o.payment_status \in PaymentStatuses

(***************************************************************************)
(* Requests that overlap: the guarded routes that write, with logins,      *)
(* logouts and expiries happening while a request is suspended at its      *)
(* query.  Orders are placed while no request is suspended.                *)
(***************************************************************************)
NextMutations ==
  \/ \E ck \in Cookies, b \in PizzaBodies : PostPizzas(ck, b)
  \/ \E r \in inflight, ok \in BOOLEAN : PostPizzasQuery(r, ok)
  \/ \E ck \in Cookies, id \in PizzaIds : DeletePizzas(ck, id)
  \/ \E r \in inflight, ok \in BOOLEAN : DeletePizzasQuery(r, ok)
  \/ \E ck \in Cookies, id \in OrderIds, b \in PatchBodies : PatchOrders(ck, id, b)
  \/ \E r \in inflight, ok \in BOOLEAN : PatchOrdersQuery(r, ok)
  \/ \E ck \in Cookies, id \in OrderIds : DeleteOrders(ck, id)
  \/ \E r \in inflight, ok \in BOOLEAN : DeleteOrdersQuery(r, ok)
  \/ \E ck \in Cookies : Idle /\ PostOrders(ck, CodOrder)
  \/ \E r \in inflight, ok \in BOOLEAN : PostOrdersQuery(r, ok)

\* no route of NextMutations reads orders.items: the column is the one
\* createTables declares
InitJson == Init /\ itemsColumn = "json"

SpecConcurrent == InitJson /\ [][NextSession \/ NextMutations]_vars

\* the guarded routes that write
MutatingOps ==
  {"POST /api/pizzas", "DELETE /api/pizzas/:id",
   "PATCH /api/orders/:id", "DELETE /api/orders/:id"}

\* C16: a step in which a guarded write changes a table answers a request
\* whose session the store still returns as an admin session: no write of
\* a request is applied once its session has been logged out.
C16_NoMutationAfterLogout ==
  [][ ( /\ last'.req.op \in MutatingOps
        /\ <<pizzas, orders>>' # <<pizzas, orders>> )
      => SessionIsAdmin(last'.req.ck) ]_vars

====
